---- MODULE Spec2Model ----
(***************************************************************************)
(* MAXE: the escalation classifier (check_escalation, three copies), the   *)
(* coach notifier (send_coach_email, three copies) and the two Streamlit   *)
(* scripts that drive them (src/app.py, src/Maxe/app.py).                  *)
(*                                                                         *)
(* Text.  A Python string is modelled as a sequence of atoms.  An atom is  *)
(* either a run of regex word characters ("chest", "ped", "1rm") or one    *)
(* non-word character (" ", "\n", "'").  Atoms written next to each other  *)
(* are glued: <<"pop","ped">> is the string "popped".  The patterns of the *)
(* source are cut into the same atoms, so that a pattern literal matches   *)
(* an atom exactly when the characters match, and \b holds between two     *)
(* atoms exactly when one is a word atom and the other is not.             *)
(***************************************************************************)
EXTENDS Integers, Sequences, FiniteSets, TLC

VARIABLES
    \* the classifier called on its own
    input,          \* the string check_escalation is called with
    cpc,            \* which copy is called next
    result_safety,  \* what src/safety.py check_escalation returned
    result_app,     \* what src/app.py check_escalation returned
    result_Maxe,    \* what src/Maxe/app.py check_escalation returned
    \* calls of src/safety.py check_escalation running side by side
    frames,         \* per caller: the call's user_msg, t and position
    lists,          \* the reasons lists under construction
    returned,       \* every (user_msg, result) a call has returned so far
    \* the configuration
    secrets,        \* st.secrets: key -> value, None when the key is not in it
    environ,        \* os.environ: key -> value, None when the variable is unset
    \* one invocation of send_coach_email
    copy,           \* which copy runs: "app", "Maxe" or "notify"
    call,           \* its arguments
    npc,            \* where the invocation is
    email,          \* the EmailMessage it composed
    wire,           \* the transport steps attempted, each with its outcome
    conn,           \* the SMTP connection: "none", "open" or "closed"
    error,          \* the exception it raised
    \* a Streamlit session and the script run in progress
    script,             \* which script serves the session: "app" or "Maxe"
    messages,           \* st.session_state.messages
    maxe_state,         \* st.session_state.maxe_state
    pending,            \* st.session_state.pending             (src/app.py)
    pending_user_msg,   \* st.session_state.pending_user_msg    (src/app.py)
    last_user_msg,      \* st.session_state.last_user_msg       (src/Maxe/app.py)
    escalation_banner,  \* st.session_state.escalation_banner   (src/Maxe/app.py)
    thinking_frame,     \* st.session_state.thinking_frame      (src/Maxe/app.py)
    pc,                 \* where the script run is
    msg,                \* the run's local msg / user_msg
    escalate,           \* the run's local escalate
    reasons,            \* the run's local reasons
    reply,              \* the run's local reply
    shown,              \* what the run has put on the page besides the chat
    notified            \* the messages send_coach_email was called for, in order

call_vars == <<frames, lists, returned>>
classifier_vars ==
    <<input, cpc, result_safety, result_app, result_Maxe, call_vars>>
config_vars == <<secrets, environ>>
notifier_vars == <<copy, call, npc, email, wire, conn, error>>
state_vars ==
    <<messages, maxe_state, pending, pending_user_msg, last_user_msg,
      escalation_banner, thinking_frame>>
run_vars == <<pc, msg, escalate, reasons, reply, shown>>
session_vars == <<script, state_vars, run_vars, notified>>

vars == <<classifier_vars, config_vars, notifier_vars, session_vars>>

\* What a step of send_coach_email leaves alone.
outside_notifier == <<classifier_vars, config_vars, session_vars>>

\* Python's None, for a string
None == "None"

\* No verdict yet (the copy was not called).
NoVerdict == [escalate |-> FALSE, reasons |-> <<>>]

\* No exception.
NoError == [kind |-> "None", text |-> <<>>]

\* No EmailMessage yet.
NoEmail == [From |-> None, To |-> None, Subject |-> None, content |-> <<>>]

\* No arguments: no invocation was made.
NoCall == [to_email |-> None, subject |-> None, body |-> <<>>, reasons |-> <<>>]

(***************************************************************************)
(* Characters                                                              *)
(***************************************************************************)

\* str.strip() with no argument removes these from both ends.
Whitespace == {" ", "\n", "\t"}

\* Atoms that are not made of word characters (\w): whitespace, punctuation.
NonWord == Whitespace \cup {"'", ","}

IsWord(a) == a \notin NonWord

\* re.IGNORECASE compares characters case-folded, one character at a time.
\* Only the atoms of the model that carry an upper-case letter are listed;
\* every other atom is its own lower-case form.  The sharp s has no
\* one-character fold to "ss": "preßure" is its own form.
Lower(a) ==
    CASE a = "PR" -> "pr"
      [] a = "Chest" -> "chest"
      [] a = "CHEST" -> "chest"
      [] a = "PAIN" -> "pain"
      [] a = "PRESSURE" -> "pressure"
      [] a = "SHARP" -> "sharp"
      [] a = "POP" -> "pop"
      [] a = "PED" -> "ped"
      [] a = "BLOOD" -> "blood"
      [] a = "HIGH" -> "high"
      [] OTHER -> a

\* user_msg.strip()
RECURSIVE lstrip(_)
lstrip(s) ==
    IF s # <<>> /\ Head(s) \in Whitespace THEN lstrip(Tail(s)) ELSE s

RECURSIVE rstrip(_)
rstrip(s) ==
    IF s # <<>> /\ s[Len(s)] \in Whitespace
    THEN rstrip(SubSeq(s, 1, Len(s) - 1))
    ELSE s

strip(s) == rstrip(lstrip(s))

(***************************************************************************)
(* Regular expressions (the subset of Python's re the patterns use).       *)
(* A pattern is a sequence of nodes matched one after the other.           *)
(***************************************************************************)

\* \b
B == [t |-> "b"]

\* one literal atom
L(a) == [t |-> "lit", a |-> a]

\* .*   ("." matches anything but a newline: no DOTALL flag is passed)
DotStar == [t |-> "dotstar"]

\* x|y|...   each alternative is a pattern
Alt(alts) == [t |-> "alt", alts |-> alts]

\* (x|y|...)?
Opt(alts) == [t |-> "opt", alts |-> alts]

\* a literal phrase, atom by atom
Lits(atoms) == [i \in 1..Len(atoms) |-> L(atoms[i])]

\* \b<phrase>\b
BW(atoms) == <<B>> \o Lits(atoms) \o <<B>>

\* Whether position i (1..Len(s)+1, the gap before s[i]) is a word boundary.
IsBoundary(s, i) ==
    LET before == i > 1 /\ IsWord(s[i - 1])
        after == i <= Len(s) /\ IsWord(s[i])
    IN  before # after

\* The positions up to which ".*" can extend from i: it stops at a newline.
RECURSIVE DotStarEnds(_, _)
DotStarEnds(s, i) ==
    IF i <= Len(s) /\ s[i] # "\n" THEN {i} \cup DotStarEnds(s, i + 1) ELSE {i}

\* Ends(p, s, i): the positions j such that pattern p matches s[i..j-1].
RECURSIVE Ends(_, _, _)
RECURSIVE NodeEnds(_, _, _)
NodeEnds(n, s, i) ==
    CASE n.t = "lit" ->
            IF i <= Len(s) /\ Lower(s[i]) = Lower(n.a) THEN {i + 1} ELSE {}
      [] n.t = "b" -> IF IsBoundary(s, i) THEN {i} ELSE {}
      [] n.t = "dotstar" -> DotStarEnds(s, i)
      [] n.t = "alt" ->
            UNION {Ends(n.alts[k], s, i) : k \in 1..Len(n.alts)}
      [] n.t = "opt" ->
            {i} \cup UNION {Ends(n.alts[k], s, i) : k \in 1..Len(n.alts)}

Ends(p, s, i) ==
    IF p = <<>> THEN {i}
    ELSE UNION {Ends(Tail(p), s, j) : j \in NodeEnds(Head(p), s, i)}

\* re.search(p, text, flags=re.IGNORECASE) is not None
search(p, text) == \E i \in 1..(Len(text) + 1) : Ends(p, text, i) # {}

\* any(re.search(p, text, flags=re.IGNORECASE) for p in patterns)
contains_any(text, patterns) ==
    \E k \in 1..Len(patterns) : search(patterns[k], text)

(***************************************************************************)
(* The patterns.  One definition per pattern string of the source; the     *)
(* copies that spell a pattern differently have their own definition.      *)
(***************************************************************************)

\* r"\bchest pain\b|\bchest pressure\b"
re_chest ==
    <<Alt(<<BW(<<"chest", " ", "pain">>), BW(<<"chest", " ", "pressure">>)>>)>>

\* r"\bfaint(ed|ing)?\b|\bpassed out\b|\bblack(ed)? out\b"
re_faint ==
    <<Alt(<<
        <<B, L("faint"), Opt(<<Lits(<<"ed">>), Lits(<<"ing">>)>>), B>>,
        BW(<<"passed", " ", "out">>),
        <<B, L("black"), Opt(<<Lits(<<"ed">>)>>), L(" "), L("out"), B>>
    >>)>>

\* (can't|cannot)
cant_cannot == Alt(<<Lits(<<"can", "'", "t">>), Lits(<<"cannot">>)>>)

\* r"\b(can't|cannot) breathe\b|\bshort(ness)? of breath\b|\bsevere shortness of breath\b"
re_breathe ==
    <<Alt(<<
        <<B, cant_cannot, L(" "), L("breathe"), B>>,
        <<B, L("short"), Opt(<<Lits(<<"ness">>)>>),
          L(" "), L("of"), L(" "), L("breath"), B>>,
        BW(<<"severe", " ", "short", "ness", " ", "of", " ", "breath">>)
    >>)>>

\* r"\b(can't|cannot) breathe\b|\bsevere shortness of breath\b|\bshort(ness)? of breath\b"
re_breathe_app ==
    <<Alt(<<
        <<B, cant_cannot, L(" "), L("breathe"), B>>,
        BW(<<"severe", " ", "short", "ness", " ", "of", " ", "breath">>),
        <<B, L("short"), Opt(<<Lits(<<"ness">>)>>),
          L(" "), L("of"), L(" "), L("breath"), B>>
    >>)>>

\* r"\bnumb(ness)?\b|\btingl(e|ing)\b|\bweak(ness)?\b|\bface droop\b|\bconfus(ed|ion)\b"
re_numb ==
    <<Alt(<<
        <<B, L("numb"), Opt(<<Lits(<<"ness">>)>>), B>>,
        <<B, L("tingl"), Alt(<<Lits(<<"e">>), Lits(<<"ing">>)>>), B>>,
        <<B, L("weak"), Opt(<<Lits(<<"ness">>)>>), B>>,
        BW(<<"face", " ", "droop">>),
        <<B, L("confus"), Alt(<<Lits(<<"ed">>), Lits(<<"ion">>)>>), B>>
    >>)>>

\* r"\bpalpitation(s)?\b|\bheart flutter\b|\birregular heartbeat\b"
re_heart ==
    <<Alt(<<
        <<B, L("palpitation"), Opt(<<Lits(<<"s">>)>>), B>>,
        BW(<<"heart", " ", "flutter">>),
        BW(<<"irregular", " ", "heartbeat">>)
    >>)>>

\* r"\bpalpitation(s)?\b|\birregular heartbeat\b|\bheart flutter\b"
re_heart_app ==
    <<Alt(<<
        <<B, L("palpitation"), Opt(<<Lits(<<"s">>)>>), B>>,
        BW(<<"irregular", " ", "heartbeat">>),
        BW(<<"heart", " ", "flutter">>)
    >>)>>

\* r"\baorta\b|\baneurysm\b|": a trailing bar adds an alternative that matches
\* the empty string.
re_aorta_empty_alternative ==
    <<Alt(<<BW(<<"aorta">>), BW(<<"aneurysm">>), <<>>>>)>>

\* r"\baorta\b|\baneurysm\b"
re_aorta == <<Alt(<<BW(<<"aorta">>), BW(<<"aneurysm">>)>>)>>

\* r"\bblood pressure\b.*\b(high|spike|spiking)\b"
re_blood_pressure ==
    BW(<<"blood", " ", "pressure">>)
    \o <<DotStar, B,
         Alt(<<Lits(<<"high">>), Lits(<<"spike">>), Lits(<<"spiking">>)>>), B>>

\* r"\bsharp pain\b"
re_sharp == BW(<<"sharp", " ", "pain">>)

\* \bpop(ped)?\b.*\bpain\b
pop_then_pain ==
    <<B, L("pop"), Opt(<<Lits(<<"ped">>)>>), B, DotStar, B, L("pain"), B>>

\* r"\bpop(ped)?\b.*\bpain\b|\bheard a pop\b"
re_pop == <<Alt(<<pop_then_pain, BW(<<"heard", " ", "a", " ", "pop">>)>>)>>

\* r"\bheard a pop\b|\bpop(ped)?\b.*\bpain\b"
re_pop_app == <<Alt(<<BW(<<"heard", " ", "a", " ", "pop">>), pop_then_pain>>)>>

\* r"\bswelling\b|\bbruise\b|\bbruising\b"
re_swelling ==
    <<Alt(<<BW(<<"swelling">>), BW(<<"bruis", "e">>), BW(<<"bruis", "ing">>)>>)>>

\* r"\bswelling\b|\bbruis(e|ing)\b"
re_swelling_app ==
    <<Alt(<<
        BW(<<"swelling">>),
        <<B, L("bruis"), Alt(<<Lits(<<"e">>), Lits(<<"ing">>)>>), B>>
    >>)>>

\* r"\b(can't|cannot) bear weight\b|\bcan't walk\b"
re_bear_weight ==
    <<Alt(<<
        <<B, cant_cannot, L(" "), L("bear"), L(" "), L("weight"), B>>,
        BW(<<"can", "'", "t", " ", "walk">>)
    >>)>>

\* r"\bshoot(ing)? pain\b|\bpain down (my|the) (arm|leg)\b"
re_shoot ==
    <<Alt(<<
        <<B, L("shoot"), Opt(<<Lits(<<"ing">>)>>), L(" "), L("pain"), B>>,
        <<B, L("pain"), L(" "), L("down"), L(" "),
          Alt(<<Lits(<<"my">>), Lits(<<"the">>)>>), L(" "),
          Alt(<<Lits(<<"arm">>), Lits(<<"leg">>)>>), B>>
    >>)>>

\* r"\bunstable\b|\bgiving out\b|\blocks up\b"
re_unstable ==
    <<Alt(<<BW(<<"unstable">>), BW(<<"giving", " ", "out">>),
            BW(<<"locks", " ", "up">>)>>)>>

\* r"\bmax out\b|\b1rm\b|\bPR\b"
re_max == <<Alt(<<BW(<<"max", " ", "out">>), BW(<<"1rm">>), BW(<<"PR">>)>>)>>

\* r"\bchange (my|the) program\b|\bmodify (my|the) program\b"
re_program ==
    <<Alt(<<
        <<B, L("change"), L(" "), Alt(<<Lits(<<"my">>), Lits(<<"the">>)>>),
          L(" "), L("program"), B>>,
        <<B, L("modify"), L(" "), Alt(<<Lits(<<"my">>), Lits(<<"the">>)>>),
          L(" "), L("program"), B>>
    >>)>>

\* r"\bskip (this|the) week\b|\bdeload\b.*\bnow\b"
re_skip ==
    <<Alt(<<
        <<B, L("skip"), L(" "), Alt(<<Lits(<<"this">>), Lits(<<"the">>)>>),
          L(" "), L("week"), B>>,
        <<B, L("deload"), B, DotStar, B, L("now"), B>>
    >>)>>

\* r"\bwhat did you mean\b|\bwhat do you want me to do\b"
re_what ==
    <<Alt(<<
        BW(<<"what", " ", "did", " ", "you", " ", "mean">>),
        BW(<<"what", " ", "do", " ", "you", " ", "want", " ", "me", " ",
             "to", " ", "do">>)
    >>)>>

\* src/safety.py
medical_red_flags_safety ==
    <<re_chest, re_faint, re_breathe, re_numb, re_heart, re_aorta,
      re_blood_pressure>>

injury_red_flags_safety ==
    <<re_sharp, re_pop, re_swelling, re_bear_weight, re_shoot, re_unstable>>

needs_coach_safety == <<re_max, re_program, re_skip, re_what>>

\* src/app.py
medical_red_flags_app ==
    <<re_chest, re_faint, re_breathe_app, re_numb, re_heart_app, re_aorta,
      re_blood_pressure>>

injury_red_flags_app ==
    <<re_sharp, re_pop_app, re_swelling_app, re_bear_weight, re_shoot,
      re_unstable>>

requires_coach_app == <<re_max, re_program, re_skip, re_what>>

\* src/Maxe/app.py
medical_red_flags_Maxe ==
    <<re_chest, re_faint, re_breathe, re_numb, re_heart, re_aorta,
      re_blood_pressure>>

injury_red_flags_Maxe ==
    <<re_sharp, re_pop, re_swelling, re_bear_weight, re_shoot, re_unstable>>

requires_coach_Maxe == <<re_max, re_program, re_skip, re_what>>

(***************************************************************************)
(* check_escalation                                                        *)
(***************************************************************************)

\* classify with escalate taken from the red flags alone.
classify_red_flags_only(user_msg, medical, injury, coach) ==
    LET t == strip(user_msg)
        r0 == <<>>
        r1 == IF contains_any(t, medical)
              THEN Append(r0, "medical_red_flag") ELSE r0
        r2 == IF contains_any(t, injury)
              THEN Append(r1, "injury_red_flag") ELSE r1
        r3 == IF contains_any(t, coach)
              THEN Append(r2, "requires_coach_judgment") ELSE r2
    IN  [escalate |-> Len(r2) > 0, reasons |-> r3]

\* classify appending a code for every pattern that matches.
classify_per_pattern(user_msg, medical, injury, coach) ==
    LET t == strip(user_msg)
        hits(patterns, code) ==
            [k \in 1..Len(SelectSeq(patterns, LAMBDA p : search(p, t))) |-> code]
        r3 == hits(medical, "medical_red_flag")
              \o hits(injury, "injury_red_flag")
              \o hits(coach, "requires_coach_judgment")
    IN  [escalate |-> Len(r3) > 0, reasons |-> r3]

\* classify with the three ifs chained as if / elif / elif.
classify_elif(user_msg, medical, injury, coach) ==
    LET t == strip(user_msg)
        r3 == IF contains_any(t, medical) THEN <<"medical_red_flag">>
              ELSE IF contains_any(t, injury) THEN <<"injury_red_flag">>
              ELSE IF contains_any(t, coach) THEN <<"requires_coach_judgment">>
              ELSE <<>>
    IN  [escalate |-> Len(r3) > 0, reasons |-> r3]

\* The three "if contains_any(...): reasons.append(...)" statements and the
\* return, from the three pattern lists of a copy.
classify(user_msg, medical, injury, coach) ==
    LET t == strip(user_msg)
        r0 == <<>>
        r1 == IF contains_any(t, medical)
              THEN Append(r0, "medical_red_flag") ELSE r0
        r2 == IF contains_any(t, injury)
              THEN Append(r1, "injury_red_flag") ELSE r1
        r3 == IF contains_any(t, coach)
              THEN Append(r2, "requires_coach_judgment") ELSE r2
    IN  [escalate |-> Len(r3) > 0, reasons |-> r3]

\* src/safety.py check_escalation
check_escalation_safety(user_msg) ==
    classify(user_msg, medical_red_flags_safety, injury_red_flags_safety,
             needs_coach_safety)

\* src/app.py check_escalation
check_escalation_app(user_msg) ==
    classify(user_msg, medical_red_flags_app, injury_red_flags_app,
             requires_coach_app)

\* src/Maxe/app.py check_escalation
check_escalation_Maxe(user_msg) ==
    classify(user_msg, medical_red_flags_Maxe, injury_red_flags_Maxe,
             requires_coach_Maxe)

(***************************************************************************)
(* src/safety.py check_escalation, statement by statement, for calls that  *)
(* run side by side (one per conversation turn in progress).               *)
(***************************************************************************)

\* The turns that may be calling at the same time.
Callers == {1, 2}

\* A caller that is not in a call.
NoFrame == [user_msg |-> <<>>, t |-> <<>>, at |-> "idle", n |-> 0]

NoCalls ==
    /\ frames = [c \in Callers |-> NoFrame]
    /\ lists = [c \in Callers |-> <<>>]
    /\ returned = {}

\* One list object for all calls (a module-level "reasons = []").
reasons_shared(c) == 1

\* "reasons: List[str] = []" is a local: every call has a list of its own.
reasons_of(c) == c

\* def check_escalation(user_msg): t = user_msg.strip(); reasons = []
Enter(c, user_msg) ==
    /\ frames[c].at = "idle"
    /\ frames' = [frames EXCEPT ![c] =
                    [user_msg |-> user_msg, t |-> strip(user_msg),
                     at |-> "medical", n |-> @.n + 1]]
    /\ lists' = [lists EXCEPT ![reasons_of(c)] = <<>>]
    /\ UNCHANGED returned

\* if _contains_any(t, <patterns>): reasons.append(<code>)
IfAppend(c, at, patterns, code, next) ==
    /\ frames[c].at = at
    /\ lists' = IF contains_any(frames[c].t, patterns)
                THEN [lists EXCEPT ![reasons_of(c)] = Append(@, code)]
                ELSE lists
    /\ frames' = [frames EXCEPT ![c].at = next]
    /\ UNCHANGED returned

\* return EscalationResult(escalate=len(reasons) > 0, reasons=reasons)
Return(c) ==
    /\ frames[c].at = "return"
    /\ returned' = returned \cup
            {[user_msg |-> frames[c].user_msg,
              result |-> [escalate |-> Len(lists[reasons_of(c)]) > 0,
                          reasons |-> lists[reasons_of(c)]]]}
    /\ frames' = [frames EXCEPT ![c].at = "idle"]
    /\ UNCHANGED lists

(***************************************************************************)
(* Configuration: get_secret and os.getenv                                 *)
(***************************************************************************)

Keys == {"COACH_EMAIL", "SMTP_HOST", "SMTP_PORT", "SMTP_USER", "SMTP_PASS",
         "SMTP_FROM"}

\* os.getenv(key, default)
getenv(key, default) == IF environ[key] # None THEN environ[key] ELSE default

\* get_secret(key, default): Streamlit secrets first, then the environment
get_secret(key, default) ==
    IF secrets[key] # None THEN secrets[key] ELSE getenv(key, default)

\* How a copy of send_coach_email reads a key: services/notify.py reads the
\* environment only.
lookup(c, key, default) ==
    IF c = "notify" THEN getenv(key, default) ELSE get_secret(key, default)

\* The values a port is given in the model: int() accepts the first only.
IsIntLiteral(v) == v \in {"587", "2525"}

\* Python truthiness of an Optional[str]
Truthy(v) == v # None /\ v # ""

\* ', '.join(items)
RECURSIVE Join(_)
Join(items) ==
    IF items = <<>> THEN <<>>
    ELSE IF Len(items) = 1 THEN <<items[1]>>
    ELSE <<items[1], ", ">> \o Join(Tail(items))

(***************************************************************************)
(* send_coach_email                                                        *)
(***************************************************************************)

\* The values the function looks up (its locals after the first six lines);
\* to_email is an argument in services/notify.py.
to_email_of(c) ==
    IF c = "notify" THEN call.to_email ELSE lookup(c, "COACH_EMAIL", None)
smtp_host_of(c) == lookup(c, "SMTP_HOST", None)
smtp_port_of(c) == lookup(c, "SMTP_PORT", "587")
smtp_user_of(c) == lookup(c, "SMTP_USER", None)
smtp_pass_of(c) == lookup(c, "SMTP_PASS", None)
smtp_from_of(c) == lookup(c, "SMTP_FROM", smtp_user_of(c))

\* The dict literal of the list comprehension, in insertion order.
checked_keys ==
    <<"COACH_EMAIL", "SMTP_HOST", "SMTP_USER", "SMTP_PASS", "SMTP_FROM">>

checked_value(c, k) ==
    CASE k = "COACH_EMAIL" -> to_email_of(c)
      [] k = "SMTP_HOST" -> smtp_host_of(c)
      [] k = "SMTP_USER" -> smtp_user_of(c)
      [] k = "SMTP_PASS" -> smtp_pass_of(c)
      [] k = "SMTP_FROM" -> smtp_from_of(c)

\* missing = [k for k, v in {...}.items() if not v]
missing_keys(c) ==
    SelectSeq(checked_keys, LAMBDA k : ~Truthy(checked_value(c, k)))

\* The configuration check of a copy: the error it raises, NoError when it
\* passes.
\*   app.py, Maxe/app.py:  if missing: raise RuntimeError(f"Missing ...")
\*   services/notify.py:   if not all([smtp_host, smtp_user, smtp_pass, smtp_from])
config_error(c) ==
    IF c = "notify"
    THEN IF /\ Truthy(smtp_host_of(c)) /\ Truthy(smtp_user_of(c))
            /\ Truthy(smtp_pass_of(c)) /\ Truthy(smtp_from_of(c))
         THEN NoError
         ELSE [kind |-> "RuntimeError",
               text |-> <<"SMTP env vars not set. Set SMTP_HOST/USER/PASS/FROM/PORT.">>]
    ELSE IF missing_keys(c) = <<>>
         THEN NoError
         ELSE [kind |-> "RuntimeError",
               text |-> <<"Missing email config keys: ">> \o Join(missing_keys(c))]

\* msg.set_content(body + f"\n\nEscalation reasons: {', '.join(reasons)}")
content_of(body, rs) ==
    body \o <<"\n\nEscalation reasons: ">> \o Join(rs)

\* msg = EmailMessage(); msg["From"] = ...; msg.set_content(...)
compose(c) ==
    [From |-> smtp_from_of(c), To |-> to_email_of(c),
     Subject |-> call.subject,
     content |-> content_of(call.body, call.reasons)]

\* The function up to the "with" statement: the lookups, int(), the
\* configuration check, the message.
Prepare ==
    /\ npc = "called"
    /\ IF ~IsIntLiteral(smtp_port_of(copy))
       THEN \* int(...) raises before the check is reached
            /\ error' = [kind |-> "ValueError",
                         text |-> <<"invalid literal for int() with base 10">>]
            /\ npc' = "raised"
            /\ email' = email
       ELSE IF config_error(copy) # NoError
       THEN /\ error' = config_error(copy)
            /\ npc' = "raised"
            /\ email' = email
       ELSE /\ email' = compose(copy)
            /\ npc' = "composed"
            /\ error' = error
    /\ UNCHANGED <<copy, call, wire, conn, outside_notifier>>

\* smtplib.SMTP(smtp_host, smtp_port): the constructor connects; when it
\* raises, the with block is never entered.
Connect ==
    /\ npc = "composed"
    /\ \E ok \in BOOLEAN :
        /\ wire' = Append(wire, [step |-> "connect", ok |-> ok])
        /\ IF ok
           THEN /\ conn' = "open"
                /\ npc' = "connected"
                /\ error' = error
           ELSE /\ conn' = conn
                /\ npc' = "raised"
                /\ error' = [kind |-> "OSError", text |-> <<"connect failed">>]
    /\ UNCHANGED <<copy, call, email, outside_notifier>>

\* A step inside the with block: it returns and the next statement runs, or
\* it raises and the block is left.
BlockStep(step, ok, next) ==
    /\ wire' = Append(wire, [step |-> step, ok |-> ok])
    /\ IF ok
       THEN /\ npc' = next
            /\ error' = error
       ELSE /\ npc' = "exit"
            /\ error' = [kind |-> "SMTPException", text |-> <<step, " failed">>]

\* server.starttls()
StartTLS ==
    /\ npc = "connected"
    /\ \E ok \in BOOLEAN : BlockStep("starttls", ok, "tls")
    /\ UNCHANGED <<copy, call, email, conn, outside_notifier>>

\* Login attempted on the plain connection, before starttls.
Login_before_starttls ==
    /\ npc = "connected"
    /\ \E ok \in BOOLEAN : BlockStep("login", ok, "auth")
    /\ UNCHANGED <<copy, call, email, conn, outside_notifier>>

\* server.login(smtp_user, smtp_pass)
Login ==
    /\ npc = "tls"
    /\ \E ok \in BOOLEAN : BlockStep("login", ok, "auth")
    /\ UNCHANGED <<copy, call, email, conn, outside_notifier>>

\* server.send_message(msg): a message with no recipient is refused.
SendMessage ==
    /\ npc = "auth"
    /\ \E ok \in (IF Truthy(email.To) THEN BOOLEAN ELSE {FALSE}) :
        BlockStep("send_message", ok, "exit")
    /\ UNCHANGED <<copy, call, email, conn, outside_notifier>>

\* SMTP.__exit__: quit and close, whether the block ended or raised.
Exit ==
    /\ npc = "exit"
    /\ conn' = "closed"
    /\ npc' = IF error = NoError THEN "returned" ELSE "raised"
    /\ UNCHANGED <<copy, call, email, wire, error, outside_notifier>>

\* No invocation is running.
NotifierIdle ==
    /\ copy = None
    /\ call = NoCall
    /\ npc = "idle"
    /\ email = NoEmail
    /\ wire = <<>>
    /\ conn = "none"
    /\ error = NoError

\* send_coach_email(...) is entered with these arguments.
Invoke(c, args) ==
    /\ copy' = c
    /\ call' = args
    /\ npc' = "called"
    /\ email' = NoEmail
    /\ wire' = <<>>
    /\ conn' = "none"
    /\ error' = NoError

\* No configuration at all.
NoConfig == [k \in Keys |-> None]

(***************************************************************************)
(* The Streamlit scripts.  A script runs from the top on every submission  *)
(* and on every rerun; st.session_state survives between runs.  pc is      *)
(* "idle" when no run is in progress and "rerun" when st.rerun() (or the   *)
(* browser) has asked for a run that has not started.                      *)
(***************************************************************************)

\* maxe_reply_for(user_msg) of src/app.py
maxe_reply_for(user_msg) ==
    <<"Acknowledged.\n\nIf you need a substitution, tell me: ...">>

\* maxe_escalation_reply() of src/app.py, escalation_reply of src/Maxe/app.py
maxe_escalation_reply ==
    <<"Coach notified.\n\nStop the session if symptoms worsen. ...">>

\* maxe_reply of src/Maxe/app.py
maxe_reply ==
    <<"Acknowledged.\nIf you need a substitution, tell me your available equipment ...">>

\* The body built from the trimmed message.
alert_body_trimmed(m) ==
    <<"User message:\n\n">> \o strip(m)
    \o <<"\n\nContext:\n- App: MAXE\n- State: ESCALATION\n">>

\* body=f"User message:\n\n{msg}\n\nContext:\n- App: MAXE\n- State: ESCALATION\n"
alert_body(m) ==
    <<"User message:\n\n">> \o m
    \o <<"\n\nContext:\n- App: MAXE\n- State: ESCALATION\n">>

\* The arguments of the scripts' call of send_coach_email.
alert_args(m, rs) ==
    [to_email |-> None, subject |-> "MAXE Escalation Alert",
     body |-> alert_body(m), reasons |-> rs]

\* "except RuntimeError": only the configuration error is caught.
Caught_RuntimeError_only(kind) == kind = "RuntimeError"

\* "except Exception": every exception send_coach_email raises here is one.
Caught(kind) ==
    kind \in {"ValueError", "RuntimeError", "OSError", "SMTPException"}

\* What the except branch of a script tells the user about the exception e:
\*   src/app.py:      st.warning(f"Coach email not sent (check Streamlit secrets): {e}")
\*   src/Maxe/app.py: {"role": "assistant", "content":
\*                     f"Coach notification failed (email config missing): {e}"}
diagnostic(s, e) ==
    IF s = "app"
    THEN <<"Coach email not sent (check Streamlit secrets): ">> \o e.text
    ELSE <<"Coach notification failed (email config missing): ">> \o e.text

\* The call handed to a background thread: the next statement runs as soon
\* as the call has been made.
NotifierStarted == npc # "idle"

\* The call of send_coach_email is synchronous: the statement after it runs
\* when the call has returned or raised.
NotifierDone == npc \in {"returned", "raised"}

\* typewriter_in_chat's on_error_state default
on_error_state == "IDLE"

user_entry(m) == [role |-> "user", content |-> m]
assistant_entry(text) == [role |-> "assistant", content |-> text]

\* How many messages the user has submitted.
Submitted == Len(SelectSeq(messages, LAMBDA e : e.role = "user"))

\* How many submissions a session sees, at most.
MaxTurns == 2

\* What the user submits: chat_input yields no empty string.
TurnMessages ==
    { <<"pop">>,
      <<" ", "Chest", " ", "pain", "\n">>,
      <<"\n", "pop", " ", "sharp", " ", "pain", " ", "pr">>,
      <<" ">> }

\* ---- src/app.py ----

\* Phase 1 without "pending = True": the message is in the history but is
\* not queued.
AppSubmit_not_queued ==
    /\ script = "app"
    /\ pc = "idle"
    /\ ~pending
    /\ Submitted < MaxTurns
    /\ \E user_msg \in TurnMessages :
        /\ messages' = Append(messages, user_entry(user_msg))
        /\ pending_user_msg' = user_msg
    /\ maxe_state' = "THINKING"
    /\ shown' = {}
    /\ pc' = "rerun"
    /\ UNCHANGED <<script, pending, last_user_msg, escalation_banner,
                   thinking_frame, msg, escalate, reasons, reply, notified,
                   classifier_vars, config_vars, notifier_vars>>

\* Phase 1: chat_input returns a message.
AppSubmit ==
    /\ script = "app"
    /\ pc = "idle"
    /\ ~pending
    /\ Submitted < MaxTurns
    /\ \E user_msg \in TurnMessages :
        /\ messages' = Append(messages, user_entry(user_msg))
        /\ pending_user_msg' = user_msg
    /\ pending' = TRUE
    /\ maxe_state' = "THINKING"
    /\ shown' = {}
    /\ pc' = "rerun"
    /\ UNCHANGED <<script, last_user_msg, escalation_banner, thinking_frame,
                   msg, escalate, reasons, reply, notified,
                   classifier_vars, config_vars, notifier_vars>>

\* A run that finds a pending message: msg = ...; check_escalation(msg).
AppClassify ==
    /\ script = "app"
    /\ pc = "rerun"
    /\ pending
    /\ msg' = pending_user_msg
    /\ escalate' = check_escalation_app(pending_user_msg).escalate
    /\ reasons' = check_escalation_app(pending_user_msg).reasons
    /\ shown' = {}
    /\ pc' = "classified"
    /\ UNCHANGED <<script, state_vars, reply, notified,
                   classifier_vars, config_vars, notifier_vars>>

\* if escalate: ... up to the call of send_coach_email
AppEscalate ==
    /\ script = "app"
    /\ pc = "classified"
    /\ escalate
    /\ maxe_state' = "ESCALATION"
    /\ shown' = shown \cup {"COACH NOTIFIED"}
    /\ notified' = Append(notified, msg)
    /\ Invoke("app", alert_args(msg, reasons))
    /\ pc' = "notifying"
    /\ UNCHANGED <<script, messages, pending, pending_user_msg, last_user_msg,
                   escalation_banner, thinking_frame,
                   msg, escalate, reasons, reply,
                   classifier_vars, config_vars>>

\* The call is over: "except Exception" shows a warning; the safety reply.
AppAfterNotify ==
    /\ script = "app"
    /\ pc = "notifying"
    /\ NotifierDone
    /\ IF npc = "raised" /\ ~Caught(error.kind)
       THEN \* the exception leaves the script: the run ends here
            /\ shown' = shown \cup {"exception"}
            /\ pc' = "idle"
            /\ reply' = reply
       ELSE /\ shown' = IF npc = "raised"
                        THEN shown \cup {Head(diagnostic("app", error))}
                        ELSE shown
            /\ reply' = maxe_escalation_reply
            /\ pc' = "typing"
    /\ UNCHANGED <<script, state_vars, msg, escalate, reasons, notified,
                   classifier_vars, config_vars, notifier_vars>>

\* else: maxe_state = "RESPONDING"; reply = maxe_reply_for(msg)
AppRespond ==
    /\ script = "app"
    /\ pc = "classified"
    /\ ~escalate
    /\ maxe_state' = "RESPONDING"
    /\ reply' = maxe_reply_for(msg)
    /\ pc' = "typing"
    /\ UNCHANGED <<script, messages, pending, pending_user_msg, last_user_msg,
                   escalation_banner, thinking_frame,
                   msg, escalate, reasons, shown, notified,
                   classifier_vars, config_vars, notifier_vars>>

\* typewriter_in_chat without its try/except: an error raised while the
\* reply is typed leaves the function and ends the run.
AppTypewriter_unguarded ==
    /\ script = "app"
    /\ pc = "typing"
    /\ \E ok \in BOOLEAN :
        IF ok
        THEN /\ pc' = "save"
             /\ UNCHANGED shown
        ELSE /\ pc' = "idle"
             /\ shown' = shown \cup {"exception"}
    /\ UNCHANGED <<script, state_vars, msg, escalate, reasons, reply, notified,
                   classifier_vars, config_vars, notifier_vars>>

\* typewriter_in_chat: it types the reply, or an error inside is caught.
AppTypewriter ==
    /\ script = "app"
    /\ pc = "typing"
    /\ \E ok \in BOOLEAN :
        IF ok
        THEN UNCHANGED <<maxe_state, shown>>
        ELSE /\ maxe_state' = on_error_state
             /\ shown' = shown \cup {"MAXE hit a hiccup"}
    /\ pc' = "save"
    /\ UNCHANGED <<script, messages, pending, pending_user_msg, last_user_msg,
                   escalation_banner, thinking_frame,
                   msg, escalate, reasons, reply, notified,
                   classifier_vars, config_vars, notifier_vars>>

\* AppFinish that leaves the message queued: pending and pending_user_msg
\* are not cleared.
AppFinish_keeps_pending ==
    /\ script = "app"
    /\ pc = "save"
    /\ messages' = Append(messages, assistant_entry(reply))
    /\ maxe_state' = "IDLE"
    /\ pc' = "rerun"
    /\ UNCHANGED <<script, pending, pending_user_msg, last_user_msg,
                   escalation_banner, thinking_frame, msg, escalate, reasons,
                   reply, shown, notified, classifier_vars, config_vars,
                   notifier_vars>>

\* Save the reply, clear pending, reset the state, st.rerun().
AppFinish ==
    /\ script = "app"
    /\ pc = "save"
    /\ messages' = Append(messages, assistant_entry(reply))
    /\ pending' = FALSE
    /\ pending_user_msg' = <<>>
    /\ maxe_state' = "IDLE"
    /\ pc' = "rerun"
    /\ UNCHANGED <<script, last_user_msg, escalation_banner, thinking_frame,
                   msg, escalate, reasons, reply, shown, notified,
                   classifier_vars, config_vars, notifier_vars>>

\* A run with nothing pending and no input: the page is drawn again.
AppIdleRun ==
    /\ script = "app"
    /\ pc = "rerun"
    /\ ~pending
    /\ shown' = {}
    /\ pc' = "idle"
    /\ UNCHANGED <<script, state_vars, msg, escalate, reasons, reply, notified,
                   classifier_vars, config_vars, notifier_vars>>

\* The browser asks for a run (a reload of the page's widgets).
AppRerun ==
    /\ script = "app"
    /\ pc = "idle"
    /\ pc' = "rerun"
    /\ UNCHANGED <<script, state_vars, msg, escalate, reasons, reply, shown,
                   notified, classifier_vars, config_vars, notifier_vars>>

\* ---- src/Maxe/app.py ----

\* The top of a run: the thinking frame toggles while THINKING, and the
\* banner is shown once and cleared.
frame_at_top ==
    IF maxe_state = "THINKING"
    THEN (IF thinking_frame = "A" THEN "B" ELSE "A")
    ELSE thinking_frame

shown_at_top == IF escalation_banner THEN {"COACH NOTIFIED"} ELSE {}

\* A run in which chat_input returns a message: down to "Save user msg".
MaxeSubmit ==
    /\ script = "Maxe"
    /\ pc = "idle"
    /\ Submitted < MaxTurns
    /\ thinking_frame' = frame_at_top
    /\ shown' = shown_at_top
    /\ escalation_banner' = FALSE
    /\ \E user_msg \in TurnMessages :
        /\ messages' = Append(messages, user_entry(user_msg))
        /\ last_user_msg' = user_msg
        /\ msg' = user_msg
    /\ pc' = "submitted"
    /\ UNCHANGED <<script, maxe_state, pending, pending_user_msg,
                   escalate, reasons, reply, notified,
                   classifier_vars, config_vars, notifier_vars>>

\* escalate, reasons = check_escalation(user_msg)
MaxeClassify ==
    /\ script = "Maxe"
    /\ pc = "submitted"
    /\ escalate' = check_escalation_Maxe(msg).escalate
    /\ reasons' = check_escalation_Maxe(msg).reasons
    /\ pc' = "classified"
    /\ UNCHANGED <<script, state_vars, msg, reply, shown, notified,
                   classifier_vars, config_vars, notifier_vars>>

\* if escalate: state, banner, up to the call of send_coach_email
MaxeEscalate ==
    /\ script = "Maxe"
    /\ pc = "classified"
    /\ escalate
    /\ maxe_state' = "ESCALATION"
    /\ escalation_banner' = TRUE
    /\ notified' = Append(notified, msg)
    /\ Invoke("Maxe", alert_args(msg, reasons))
    /\ pc' = "notifying"
    /\ UNCHANGED <<script, messages, pending, pending_user_msg, last_user_msg,
                   thinking_frame, msg, escalate, reasons, reply, shown,
                   classifier_vars, config_vars>>

\* The escalation branch without its final st.rerun(): the run goes on into
\* the NORMAL FLOW statements.
MaxeAfterNotify_falls_through ==
    /\ script = "Maxe"
    /\ pc = "notifying"
    /\ NotifierDone
    /\ shown' = shown
    /\ messages' =
        (IF npc = "raised"
         THEN Append(messages, assistant_entry(diagnostic("Maxe", error)))
         ELSE messages)
        \o <<assistant_entry(maxe_escalation_reply)>>
    /\ maxe_state' = "THINKING"
    /\ thinking_frame' = "A"
    /\ pc' = "rerun"
    /\ UNCHANGED <<script, pending, pending_user_msg, last_user_msg,
                   escalation_banner, msg, escalate, reasons, reply, notified,
                   classifier_vars, config_vars, notifier_vars>>

\* The call is over: "except Exception" puts the failure in the chat; the
\* safety reply; st.rerun().
MaxeAfterNotify ==
    /\ script = "Maxe"
    /\ pc = "notifying"
    /\ NotifierDone
    /\ IF npc = "raised" /\ ~Caught(error.kind)
       THEN \* the exception leaves the script: the run ends here
            /\ shown' = shown \cup {"exception"}
            /\ pc' = "idle"
            /\ messages' = messages
       ELSE /\ shown' = shown
            /\ messages' =
                (IF npc = "raised"
                 THEN Append(messages,
                             assistant_entry(diagnostic("Maxe", error)))
                 ELSE messages)
                \o <<assistant_entry(maxe_escalation_reply)>>
            /\ pc' = "rerun"
    /\ UNCHANGED <<script, maxe_state, pending, pending_user_msg,
                   last_user_msg, escalation_banner, thinking_frame,
                   msg, escalate, reasons, reply, notified,
                   classifier_vars, config_vars, notifier_vars>>

\* NORMAL FLOW: THINKING, frame A, st.rerun()
MaxeNormal ==
    /\ script = "Maxe"
    /\ pc = "classified"
    /\ ~escalate
    /\ maxe_state' = "THINKING"
    /\ thinking_frame' = "A"
    /\ pc' = "rerun"
    /\ UNCHANGED <<script, messages, pending, pending_user_msg, last_user_msg,
                   escalation_banner, msg, escalate, reasons, reply, shown,
                   notified, classifier_vars, config_vars, notifier_vars>>

\* The THINKING block without its first three statements: the state stays
\* THINKING and last_user_msg is not consumed.
MaxeRespond_not_consumed ==
    /\ script = "Maxe"
    /\ pc = "rerun"
    /\ maxe_state = "THINKING" /\ last_user_msg # <<>>
    /\ thinking_frame' = frame_at_top
    /\ shown' = shown_at_top
    /\ escalation_banner' = FALSE
    /\ messages' = Append(messages, assistant_entry(maxe_reply))
    /\ pc' = "rerun"
    /\ UNCHANGED <<script, maxe_state, last_user_msg, msg, pending,
                   pending_user_msg, escalate, reasons, reply, notified,
                   classifier_vars, config_vars, notifier_vars>>

\* A run without input that reaches the THINKING block with a message to
\* answer: the reply is appended and st.rerun() is called.
MaxeRespond ==
    /\ script = "Maxe"
    /\ pc = "rerun"
    /\ maxe_state = "THINKING" /\ last_user_msg # <<>>
    /\ thinking_frame' = frame_at_top
    /\ shown' = shown_at_top
    /\ escalation_banner' = FALSE
    /\ maxe_state' = "IDLE"
    /\ msg' = last_user_msg
    /\ last_user_msg' = <<>>
    /\ messages' = Append(messages, assistant_entry(maxe_reply))
    /\ pc' = "rerun"
    /\ UNCHANGED <<script, pending, pending_user_msg,
                   escalate, reasons, reply, notified,
                   classifier_vars, config_vars, notifier_vars>>

\* A run without input that has nothing to answer.
MaxeIdleRun ==
    /\ script = "Maxe"
    /\ pc = "rerun"
    /\ ~(maxe_state = "THINKING" /\ last_user_msg # <<>>)
    /\ thinking_frame' = frame_at_top
    /\ shown' = shown_at_top
    /\ escalation_banner' = FALSE
    /\ pc' = "idle"
    /\ UNCHANGED <<script, messages, maxe_state, pending, pending_user_msg,
                   last_user_msg, msg, escalate, reasons, reply, notified,
                   classifier_vars, config_vars, notifier_vars>>

\* The browser asks for a run.
MaxeRerun ==
    /\ script = "Maxe"
    /\ pc = "idle"
    /\ pc' = "rerun"
    /\ UNCHANGED <<script, state_vars, msg, escalate, reasons, reply, shown,
                   notified, classifier_vars, config_vars, notifier_vars>>

\* Session state init of either script, before the first submission.
SessionInit ==
    /\ script \in {"app", "Maxe"}
    /\ messages = <<>>
    /\ maxe_state = "IDLE"
    /\ pending = FALSE
    /\ pending_user_msg = <<>>
    /\ last_user_msg = <<>>
    /\ escalation_banner = FALSE
    /\ thinking_frame = "A"
    /\ pc = "idle"
    /\ msg = <<>>
    /\ escalate = FALSE
    /\ reasons = <<>>
    /\ reply = <<>>
    /\ shown = {}
    /\ notified = <<>>

\* No session: the functions are called on their own.
NoSession ==
    /\ script = None
    /\ messages = <<>>
    /\ maxe_state = "IDLE"
    /\ pending = FALSE
    /\ pending_user_msg = <<>>
    /\ last_user_msg = <<>>
    /\ escalation_banner = FALSE
    /\ thinking_frame = "A"
    /\ pc = "idle"
    /\ msg = <<>>
    /\ escalate = FALSE
    /\ reasons = <<>>
    /\ reply = <<>>
    /\ shown = {}
    /\ notified = <<>>

(***************************************************************************)
(* The classifier on its own: every copy applied to one input.             *)
(***************************************************************************)

\* How many pieces an input is made of, at most.
MaxPieces == 3

\* What inputs are made of: separators, phrases the patterns know, in either
\* case, a suffix that glues to the word before it ("pop" "ped"), and a
\* phrase spelt with a sharp s.
Pieces ==
    { <<" ">>, <<"\n">>,
      <<"Chest", " ", "pain">>,
      <<" ", "sharp", " ", "pain">>,
      <<" ", "pr">>,
      <<"pop">>, <<"ped">>,
      <<"blood", " ", "pressure">>,
      <<" ", "high">>,
      <<"Chest", " ", "preßure">> }

\* The strings made of at most n pieces.
RECURSIVE Messages(_)
Messages(n) ==
    IF n = 0 THEN {<<>>}
    ELSE LET shorter == Messages(n - 1)
         IN  shorter \cup {m \o p : m \in shorter, p \in Pieces}

ClassifierInit ==
    /\ secrets = NoConfig
    /\ environ = NoConfig
    /\ NotifierIdle
    /\ NoSession
    /\ input \in Messages(MaxPieces)
    /\ cpc = "safety"
    /\ result_safety = NoVerdict
    /\ result_app = NoVerdict
    /\ result_Maxe = NoVerdict
    /\ NoCalls

CallSafety ==
    /\ cpc = "safety"
    /\ result_safety' = check_escalation_safety(input)
    /\ cpc' = "app"
    /\ UNCHANGED <<input, result_app, result_Maxe, call_vars, config_vars,
                   notifier_vars, session_vars>>

CallApp ==
    /\ cpc = "app"
    /\ result_app' = check_escalation_app(input)
    /\ cpc' = "Maxe"
    /\ UNCHANGED <<input, result_safety, result_Maxe, call_vars, config_vars,
                   notifier_vars, session_vars>>

CallMaxe ==
    /\ cpc = "Maxe"
    /\ result_Maxe' = check_escalation_Maxe(input)
    /\ cpc' = "done"
    /\ UNCHANGED <<input, result_safety, result_app, call_vars, config_vars,
                   notifier_vars, session_vars>>

ClassifierNext == CallSafety \/ CallApp \/ CallMaxe

SpecClassifier == ClassifierInit /\ [][ClassifierNext]_vars

(***************************************************************************)
(* Calls of src/safety.py check_escalation from several turns, their       *)
(* statements interleaved in every order.                                  *)
(***************************************************************************)

\* How many calls a caller makes, at most.
MaxCalls == 2

\* What the calls are given: no flag, one flag, two flags.
CallInputs ==
    { <<"pop">>,
      <<" ", "Chest", " ", "pain", "\n">>,
      <<"pop", " ", "sharp", " ", "pain", " ", "pr">> }

outside_calls ==
    <<input, cpc, result_safety, result_app, result_Maxe,
      config_vars, notifier_vars, session_vars>>

CallsInit ==
    /\ input = <<>>
    /\ cpc = "done"
    /\ result_safety = NoVerdict
    /\ result_app = NoVerdict
    /\ result_Maxe = NoVerdict
    /\ NoCalls
    /\ secrets = NoConfig
    /\ environ = NoConfig
    /\ NotifierIdle
    /\ NoSession

CallEnter ==
    /\ \E c \in Callers : \E user_msg \in CallInputs :
        /\ frames[c].n < MaxCalls
        /\ Enter(c, user_msg)
    /\ UNCHANGED outside_calls

CallIfMedical ==
    /\ \E c \in Callers :
        IfAppend(c, "medical", medical_red_flags_safety, "medical_red_flag",
                 "injury")
    /\ UNCHANGED outside_calls

CallIfInjury ==
    /\ \E c \in Callers :
        IfAppend(c, "injury", injury_red_flags_safety, "injury_red_flag",
                 "coach")
    /\ UNCHANGED outside_calls

CallIfNeedsCoach ==
    /\ \E c \in Callers :
        IfAppend(c, "coach", needs_coach_safety, "requires_coach_judgment",
                 "return")
    /\ UNCHANGED outside_calls

CallReturn ==
    /\ \E c \in Callers : Return(c)
    /\ UNCHANGED outside_calls

CallsNext ==
    CallEnter \/ CallIfMedical \/ CallIfInjury \/ CallIfNeedsCoach \/ CallReturn

SpecCalls == CallsInit /\ [][CallsNext]_vars


(***************************************************************************)
(* The notifier on its own: one invocation under every configuration.      *)
(***************************************************************************)

Copies == {"app", "Maxe", "notify"}

\* What a key is set to: not at all, to the empty string, or to a value.
Settings(k) ==
    IF k = "SMTP_PORT" THEN {None, "2525", "abc"}
    ELSE {None, "", k \o "-value"}

AllConfigs == {f \in [Keys -> UNION {Settings(k) : k \in Keys}] :
                    \A k \in Keys : f[k] \in Settings(k)}

\* The arguments of the invocation.
NotifierArgs(c) ==
    {[to_email |-> t, subject |-> "MAXE Escalation Alert",
      body |-> <<"User message:\n\n", "pop", " ", "pain">>,
      reasons |-> <<"injury_red_flag", "requires_coach_judgment">>] :
        t \in (IF c = "notify" THEN {"", "coach@gym"} ELSE {None})}

ClassifierIdle ==
    /\ input = <<>>
    /\ cpc = "done"
    /\ result_safety = NoVerdict
    /\ result_app = NoVerdict
    /\ result_Maxe = NoVerdict
    /\ NoCalls

NotifierInit ==
    /\ ClassifierIdle
    /\ NoSession
    /\ \E store \in {"secrets", "environ"} : \E cfg \in AllConfigs :
        /\ secrets = IF store = "secrets" THEN cfg ELSE NoConfig
        /\ environ = IF store = "environ" THEN cfg ELSE NoConfig
    /\ copy \in Copies
    /\ call \in NotifierArgs(copy)
    /\ npc = "called"
    /\ email = NoEmail
    /\ wire = <<>>
    /\ conn = "none"
    /\ error = NoError

NotifierNext ==
    \/ Prepare
    \/ Connect
    \/ StartTLS
    \/ Login
    \/ SendMessage
    \/ Exit

SpecNotifier == NotifierInit /\ [][NotifierNext]_vars

(***************************************************************************)
(* A session of either script, under a few configurations.                 *)
(***************************************************************************)

\* Every key set.
FullConfig ==
    [k \in Keys |-> IF k = "SMTP_PORT" THEN "2525" ELSE k \o "-value"]

\* The configurations a session runs under: complete (in Streamlit's
\* secrets), two keys unset, a port that is no number.
SessionConfigs ==
    { [s |-> FullConfig, e |-> NoConfig],
      [s |-> NoConfig,
       e |-> [FullConfig EXCEPT !["SMTP_PASS"] = None, !["COACH_EMAIL"] = None]],
      [s |-> NoConfig, e |-> [FullConfig EXCEPT !["SMTP_PORT"] = "abc"]] }

Init ==
    /\ ClassifierIdle
    /\ \E cfg \in SessionConfigs :
        /\ secrets = cfg.s
        /\ environ = cfg.e
    /\ NotifierIdle
    /\ SessionInit

Next ==
    \/ AppSubmit
    \/ AppClassify
    \/ AppEscalate
    \/ AppAfterNotify
    \/ AppRespond
    \/ AppTypewriter
    \/ AppFinish
    \/ AppIdleRun
    \/ AppRerun
    \/ MaxeSubmit
    \/ MaxeClassify
    \/ MaxeEscalate
    \/ MaxeAfterNotify
    \/ MaxeNormal
    \/ MaxeRespond
    \/ MaxeIdleRun
    \/ MaxeRerun
    \/ Prepare
    \/ Connect
    \/ StartTLS
    \/ Login
    \/ SendMessage
    \/ Exit

Spec == Init /\ [][Next]_vars

(***************************************************************************)
(* A session of src/app.py whose runs go on: a run that has started        *)
(* executes its next statement, and a call of send_coach_email in progress *)
(* takes its next step.  The user is not required to submit or to reload.  *)
(***************************************************************************)

AppInit == Init /\ script = "app"

\* The statements of a run of src/app.py after it has started.
AppRunStep ==
    \/ AppClassify
    \/ AppEscalate
    \/ AppAfterNotify
    \/ AppRespond
    \/ AppTypewriter
    \/ AppFinish
    \/ AppIdleRun

AppNext == AppSubmit \/ AppRerun \/ AppRunStep \/ NotifierNext

SpecApp ==
    AppInit /\ [][AppNext]_vars /\ WF_vars(AppRunStep) /\ WF_vars(NotifierNext)

(***************************************************************************)
(* Properties                                                              *)
(***************************************************************************)

\* The fixed order of the reason codes.
ReasonOrder ==
    <<"medical_red_flag", "injury_red_flag", "requires_coach_judgment">>

\* The place of a code in ReasonOrder, 0 for anything else.
OrderIndex(code) ==
    IF \E i \in 1..3 : ReasonOrder[i] = code
    THEN CHOOSE i \in 1..3 : ReasonOrder[i] = code
    ELSE 0

Range(f) == {f[i] : i \in DOMAIN f}

Last(q) == q[Len(q)]

\* The three verdicts, once every copy has been called.
Verdicts == <<result_safety, result_app, result_Maxe>>

\* C1: for every input, in each of the three copies of check_escalation,
\* escalate is true exactly when the reasons list is not empty.
C1_EscalateIffReasons ==
    cpc = "done" =>
        \A i \in 1..3 : Verdicts[i].escalate = (Len(Verdicts[i].reasons) > 0)

\* An input for which every copy escalates, with two reasons.
C1_Witness ==
    /\ cpc = "done"
    /\ \A i \in 1..3 : Verdicts[i].escalate /\ Len(Verdicts[i].reasons) = 2

\* C2: the reasons list is a duplicate-free subsequence of ReasonOrder: only
\* the three codes, each at most once, in that order.
C2_OrderedNoDuplicates ==
    cpc = "done" =>
        \A i \in 1..3 :
            LET rs == Verdicts[i].reasons
            IN  /\ \A k \in 1..Len(rs) : OrderIndex(rs[k]) > 0
                /\ \A k \in 1..Len(rs) : \A l \in 1..Len(rs) :
                        k < l => OrderIndex(rs[k]) < OrderIndex(rs[l])

\* Two patterns of the injury category match and the code is there once.
C2_Witness ==
    /\ cpc = "done"
    /\ search(re_sharp, strip(input))
    /\ search(re_pop, strip(input))
    /\ \A i \in 1..3 : Verdicts[i].reasons = <<"injury_red_flag">>

\* The pattern lists of a copy, in ReasonOrder.
CategoryPatterns(i) ==
    CASE i = 1 -> <<medical_red_flags_safety, injury_red_flags_safety,
                    needs_coach_safety>>
      [] i = 2 -> <<medical_red_flags_app, injury_red_flags_app,
                    requires_coach_app>>
      [] i = 3 -> <<medical_red_flags_Maxe, injury_red_flags_Maxe,
                    requires_coach_Maxe>>

\* C3: no short circuit: each category's code is in the result exactly when a
\* pattern of that category matches the trimmed message, whatever the other
\* categories do, so the list is the one of the matching categories; a
\* medical match escalates.
C3_NoShortCircuit ==
    cpc = "done" =>
        \A i \in 1..3 :
            LET t == strip(input)
                hit(c) == contains_any(t, CategoryPatterns(i)[c])
            IN  /\ \A c \in 1..3 :
                        (ReasonOrder[c] \in Range(Verdicts[i].reasons)) <=> hit(c)
                /\ Verdicts[i].reasons
                        = SelectSeq(ReasonOrder, LAMBDA code : hit(OrderIndex(code)))
                /\ hit(1) => Verdicts[i].escalate

\* All three categories match and all three codes are reported.
C3_Witness ==
    /\ cpc = "done"
    /\ \A c \in 1..3 : contains_any(strip(input), CategoryPatterns(1)[c])
    /\ \A i \in 1..3 : Verdicts[i].reasons = ReasonOrder

\* The verdict of the script's own check_escalation.
verdict_of(m) ==
    IF script = "app" THEN check_escalation_app(m) ELSE check_escalation_Maxe(m)

\* The user entries of the chat history, oldest first.
UserEntries == SelectSeq(messages, LAMBDA e : e.role = "user")

\* The message submitted last.
LastUser == Last(UserEntries).content

\* The reply a verdict calls for.
ReplyFor(v, m) ==
    IF v.escalate THEN maxe_escalation_reply
    ELSE IF script = "app" THEN maxe_reply_for(m) ELSE maxe_reply

\* The items separated by comma-space.
RECURSIVE CommaSpace(_)
CommaSpace(items) ==
    IF Len(items) <= 1 THEN items
    ELSE <<Head(items), ", ">> \o CommaSpace(Tail(items))

IsInfix(part, whole) ==
    \E i \in 0..(Len(whole) - Len(part)) :
        SubSeq(whole, i + 1, i + Len(part)) = part

IsSuffix(part, whole) ==
    /\ Len(part) <= Len(whole)
    /\ SubSeq(whole, Len(whole) - Len(part) + 1, Len(whole)) = part

\* C4: the reply and the escalation state follow from the verdict alone.
\* Once a message is classified as escalating, whatever send_coach_email
\* does (returns, raises for the configuration, raises for the transport),
\* no exception leaves the script, the verdict is the classifier's, the state
\* is ESCALATION and "COACH NOTIFIED" is set; when the turn is over the last
\* entry of the history is the safety reply for an escalating message and the
\* normal reply otherwise.
C4_ReplyFromVerdict ==
    /\ "exception" \notin shown
    /\ (pc = "notifying" \/ (pc = "typing" /\ escalate)) =>
            /\ escalate = verdict_of(LastUser).escalate
            /\ reasons = verdict_of(LastUser).reasons
            /\ escalate
            /\ maxe_state = "ESCALATION"
            /\ IF script = "app" THEN "COACH NOTIFIED" \in shown
                                 ELSE escalation_banner
    /\ (pc = "idle" /\ messages # <<>>) =>
            Last(messages)
                = assistant_entry(ReplyFor(verdict_of(LastUser), LastUser))

\* A turn whose notification failed at the transport and that ended with the
\* safety reply.
C4_Witness ==
    /\ pc = "idle"
    /\ npc = "raised"
    /\ error.kind = "SMTPException"
    /\ messages # <<>>
    /\ Last(messages) = assistant_entry(maxe_escalation_reply)

\* What a copy needs: recipient, host, username, password, sender identity
\* (the username when no sender is configured).
RequiredMissing ==
    \E i \in 1..Len(checked_keys) : ~Truthy(checked_value(copy, checked_keys[i]))

\* C5: when a required configuration value is absent or empty, the
\* invocation fails with the configuration error, no other error first, and
\* no transport step (connect, starttls, login, send) is performed.
C5_FailsBeforeConnect ==
    (npc # "called" /\ npc # "idle" /\ RequiredMissing) =>
        /\ npc = "raised"
        /\ error.kind = "RuntimeError"
        /\ wire = <<>>
        /\ conn = "none"

\* The fixed enumeration of the keys.
KeyEnumeration ==
    <<"COACH_EMAIL", "SMTP_HOST", "SMTP_USER", "SMTP_PASS", "SMTP_FROM">>

\* C6: the configuration error names exactly the missing keys, each once, in
\* the order of KeyEnumeration.
C6_NamesExactlyMissing ==
    (npc = "raised" /\ error.kind = "RuntimeError") =>
        error.text
            = <<"Missing email config keys: ">>
              \o CommaSpace(SelectSeq(KeyEnumeration,
                    LAMBDA k : ~Truthy(checked_value(copy, k))))

\* The user messages of the history that escalate.
Escalating ==
    SelectSeq(messages,
              LAMBDA e : e.role = "user" /\ verdict_of(e.content).escalate)

\* C7: send_coach_email is called once for each escalating message, in
\* order, and for no other: never more calls than escalating messages, and
\* when no run is in progress exactly as many, also after a failed send.
C7_NotifiedOnce ==
    /\ Len(notified) <= Len(Escalating)
    /\ \A k \in 1..Len(notified) : notified[k] = Escalating[k].content
    /\ pc = "idle" => Len(notified) = Len(Escalating)

\* An escalating message whose send failed, then a message that does not
\* escalate: still one call.
C7_Witness ==
    /\ pc = "idle"
    /\ npc = "raised"
    /\ Len(UserEntries) = 2
    /\ verdict_of(UserEntries[1].content).escalate
    /\ ~verdict_of(UserEntries[2].content).escalate
    /\ Len(notified) = 1

\* An invocation of send_coach_email that has neither returned nor raised.
InProgress == npc \in {"called", "composed", "connected", "tls", "auth", "exit"}

\* C8: the order of a turn.  While send_coach_email runs the verdict is
\* known and is the one it was called with, and the turn is not finished:
\* the reply is not in the history, pending is not cleared, no rerun is
\* issued.  A turn goes on only when the call has returned or raised.
C8_TurnOrder ==
    /\ InProgress => pc = "notifying"
    /\ pc = "notifying" =>
            /\ escalate
            /\ reasons = verdict_of(msg).reasons
            /\ call.reasons = reasons
            /\ Last(messages) = user_entry(msg)
            /\ script = "app" => (pending /\ pending_user_msg = msg)
    /\ (pc \in {"typing", "save"} /\ escalate) => npc \in {"returned", "raised"}

\* The notifier is logged in and about to send while the turn waits.
C8_Witness ==
    /\ pc = "notifying"
    /\ npc = "auth"

\* The order of the transport steps.
StepOrder == <<"connect", "starttls", "login", "send_message">>

\* C9: the steps of an attempt are a prefix of connect, starttls, login,
\* send_message on one connection; a step is attempted only when every step
\* before it succeeded; there is a connection only after a successful
\* connect; the attempt returns only when all four succeeded; and when the
\* attempt has ended the connection is not open.
C9_TransportOrder ==
    /\ Len(wire) <= Len(StepOrder)
    /\ \A i \in 1..Len(wire) :
            /\ wire[i].step = StepOrder[i]
            /\ i < Len(wire) => wire[i].ok
    /\ conn # "none" => (wire # <<>> /\ wire[1].ok)
    /\ npc = "returned" => (Len(wire) = 4 /\ wire[4].ok)
    /\ npc \in {"returned", "raised"} => conn # "open"

\* Login failed: nothing was sent and the connection is closed.
C9_Witness ==
    /\ npc = "raised"
    /\ Len(wire) = 3
    /\ ~wire[3].ok
    /\ conn = "closed"

\* C10: the content of the message composed in an escalating turn contains
\* the submitted message as it was submitted, and ends with the line of the
\* verdict's reason codes, in the classifier's order, separated by
\* comma-space; nothing is sent that was not composed.
C10_Body ==
    /\ (pc = "notifying" /\ email # NoEmail) =>
            /\ IsInfix(LastUser, email.content)
            /\ IsSuffix(<<"\n\nEscalation reasons: ">>
                            \o CommaSpace(verdict_of(LastUser).reasons),
                        email.content)
    /\ (pc = "notifying" /\ wire # <<>>) => email # NoEmail

\* A message with a leading newline and two reasons was sent.
C10_Witness ==
    /\ pc = "notifying"
    /\ Len(wire) = 4
    /\ wire[4].ok
    /\ Head(LastUser) = "\n"
    /\ Len(verdict_of(LastUser).reasons) = 2

\* The string is empty or made of whitespace characters only.
IsBlank(s) == \A i \in 1..Len(s) : s[i] \in {" ", "\n", "\t"}

\* C11: for the empty string and for a string of whitespace only, every copy
\* of check_escalation returns escalate = false and an empty reasons list.
C11_BlankNeverEscalates ==
    IsBlank(input) =>
        /\ cpc \in {"app", "Maxe", "done"} =>
                result_safety = [escalate |-> FALSE, reasons |-> <<>>]
        /\ cpc \in {"Maxe", "done"} =>
                result_app = [escalate |-> FALSE, reasons |-> <<>>]
        /\ cpc = "done" =>
                result_Maxe = [escalate |-> FALSE, reasons |-> <<>>]

\* The three copies were called on a string of a space and a newline.
C11_Witness ==
    /\ cpc = "done"
    /\ IsBlank(input)
    /\ Len(input) >= 2
    /\ " " \in Range(input)
    /\ "\n" \in Range(input)
    /\ ~result_safety.escalate

\* str.upper() and str.lower() of one atom.  str.upper() maps the sharp s to
\* "SS"; both leave whitespace alone.
UpperAtom(a) ==
    CASE a \in {"Chest", "chest"} -> "CHEST"
      [] a = "pain" -> "PAIN"
      [] a \in {"pressure", "preßure"} -> "PRESSURE"
      [] a = "sharp" -> "SHARP"
      [] a = "pr" -> "PR"
      [] a = "pop" -> "POP"
      [] a = "ped" -> "PED"
      [] a = "blood" -> "BLOOD"
      [] a = "high" -> "HIGH"
      [] OTHER -> a

LowerAtom(a) ==
    CASE a = "Chest" -> "chest"
      [] OTHER -> a

upper(s) == [i \in 1..Len(s) |-> UpperAtom(s[i])]
lower(s) == [i \in 1..Len(s) |-> LowerAtom(s[i])]

\* C12: the verdict of a message, of its upper-case form and of its
\* lower-case form are identical, in every copy.
C12_CaseInsensitive ==
    cpc = "done" =>
        /\ check_escalation_safety(upper(input)) = result_safety
        /\ check_escalation_safety(lower(input)) = result_safety
        /\ check_escalation_app(upper(input)) = result_app
        /\ check_escalation_app(lower(input)) = result_app
        /\ check_escalation_Maxe(upper(input)) = result_Maxe
        /\ check_escalation_Maxe(lower(input)) = result_Maxe

\* C13: two calls with the same input return the same verdict, and a call
\* returns what a call made alone returns for its input, whatever calls came
\* before it or run at the same time.
C13_NoHiddenState ==
    /\ \A p \in returned : \A q \in returned :
            p.user_msg = q.user_msg => p.result = q.result
    /\ \A p \in returned : p.result = check_escalation_safety(p.user_msg)

\* Two callers are inside check_escalation at the same time, with an input
\* that an earlier call has already returned an escalating verdict for.
C13_Witness ==
    /\ frames[1].n = 2
    /\ frames[1].at = "injury"
    /\ frames[2].at = "coach"
    /\ frames[1].user_msg = frames[2].user_msg
    /\ \E r \in returned :
            r.user_msg = frames[1].user_msg /\ Len(r.result.reasons) = 2

\* The wording of a diagnostic, apart from the exception's own text.
Wording(d) == Head(d)

\* The diagnostic the script has given for the failure of the last call.
GivenDiagnostic ==
    IF script = "app"
    THEN {w \in shown : w = Wording(diagnostic("app", error))}
    ELSE {Wording(e.content) : e \in
            {messages[i] : i \in {j \in 1..Len(messages) :
                /\ messages[j].role = "assistant"
                /\ j < Len(messages)
                /\ messages[j + 1] = assistant_entry(maxe_escalation_reply)
                /\ j > 1
                /\ messages[j - 1].role = "user"}}}

\* The call failed at a transport step.
TransportFailure == npc = "raised" /\ wire # <<>>

\* The configuration error of some copy under some incomplete configuration.
MissingConfigurationError ==
    [kind |-> "RuntimeError",
     text |-> <<"Missing email config keys: ", "SMTP_PASS">>]

\* C14: a transport failure never has the error kind of the
\* missing-configuration failure, and what the script tells the user about a
\* transport failure is not worded as what it tells about a
\* missing-configuration failure.
C14_DistinguishableFailures ==
    TransportFailure =>
        /\ error.kind # MissingConfigurationError.kind
        /\ Wording(diagnostic(script, MissingConfigurationError))
                \notin GivenDiagnostic

\* What a key is configured to, as the copy reads it, None when it is not set.
Configured(k) == lookup(copy, k, None)

\* Everything but the sender address is configured, with a numeric port.
OnlySenderMayLack ==
    /\ Truthy(to_email_of(copy))
    /\ Truthy(Configured("SMTP_HOST"))
    /\ Truthy(Configured("SMTP_USER"))
    /\ Truthy(Configured("SMTP_PASS"))
    /\ Configured("SMTP_PORT") \in {None, "587", "2525"}

\* C15: with SMTP_FROM absent or blank and a non-empty SMTP_USER, SMTP_FROM
\* is not reported missing and, when nothing else is missing, the message is
\* composed with From equal to SMTP_USER; with SMTP_PORT not set the port is
\* 587.
C15_SenderDefaultsToUser ==
    /\ (/\ npc \notin {"idle", "called"}
        /\ ~Truthy(Configured("SMTP_FROM"))
        /\ Truthy(Configured("SMTP_USER"))) =>
            /\ "SMTP_FROM" \notin Range(error.text)
            /\ OnlySenderMayLack =>
                    /\ error.kind # "RuntimeError"
                    /\ email.From = Configured("SMTP_USER")
    /\ (npc \notin {"idle", "called"} /\ Configured("SMTP_PORT") = None) =>
            smtp_port_of(copy) = "587"

\* The message contains the phrase as whole words, in any case.
ContainsPhrase(s, phrase) ==
    \E i \in 1..(Len(s) - Len(phrase) + 1) :
        /\ \A k \in 1..Len(phrase) : Lower(s[i + k - 1]) = Lower(phrase[k])
        /\ IsBoundary(s, i)
        /\ IsBoundary(s, i + Len(phrase))

\* C16: a message that contains "blood pressure" and one of the words high,
\* spike, spiking gets medical_red_flag and escalate = true from every copy,
\* whichever comes first and whether or not they are on one line.
C16_BloodPressureHigh ==
    (/\ cpc = "done"
     /\ ContainsPhrase(input, <<"blood", " ", "pressure">>)
     /\ \E w \in {"high", "spike", "spiking"} : ContainsPhrase(input, <<w>>)) =>
        \A v \in Range(Verdicts) :
            v.escalate /\ "medical_red_flag" \in Range(v.reasons)

\* C17: a message that mentions a pop (pop, popped) and pain gets
\* injury_red_flag and escalate = true from every copy, in either order.
C17_PopAndPain ==
    (/\ cpc = "done"
     /\ \/ ContainsPhrase(input, <<"pop">>)
        \/ ContainsPhrase(input, <<"pop", "ped">>)
     /\ ContainsPhrase(input, <<"pain">>)) =>
        \A v \in Range(Verdicts) :
            v.escalate /\ "injury_red_flag" \in Range(v.reasons)

\* The history alternates user, assistant, starting with a user message.
Alternates ==
    \A i \in 1..Len(messages) :
        messages[i].role = IF i % 2 = 1 THEN "user" ELSE "assistant"

\* What holds of the pending flow in every state: the history alternates; a
\* message is queued exactly while it has no reply yet, and it is the one
\* queued; with nothing queued, pending_user_msg is empty and the state is
\* IDLE.
PendingFlowInv ==
    /\ Alternates
    /\ pending <=> Len(messages) % 2 = 1
    /\ pending => pending_user_msg = Last(messages).content
    /\ ~pending => (pending_user_msg = <<>> /\ maxe_state = "IDLE")

IsNormalReply(e) == e = assistant_entry(maxe_reply)

\* What holds of the normal flow of src/Maxe/app.py in every state: a
\* placeholder reply stands right after a user message that does not
\* escalate; while the state is THINKING the message to answer is the last
\* entry and has no reply yet; between runs every message that does not
\* escalate has its reply right after it.
NormalFlowInv ==
    script = "Maxe" =>
        /\ \A i \in 1..Len(messages) :
                IsNormalReply(messages[i]) =>
                    /\ i > 1
                    /\ messages[i - 1].role = "user"
                    /\ ~check_escalation_Maxe(messages[i - 1].content).escalate
        /\ maxe_state = "THINKING" =>
                /\ last_user_msg # <<>>
                /\ Last(messages) = user_entry(last_user_msg)
                /\ ~check_escalation_Maxe(last_user_msg).escalate
        /\ pc = "idle" =>
                \A i \in 1..Len(messages) :
                    (/\ messages[i].role = "user"
                     /\ ~check_escalation_Maxe(messages[i].content).escalate) =>
                        /\ i < Len(messages)
                        /\ IsNormalReply(messages[i + 1])

\* C19: in src/Maxe/app.py a message that does not escalate is answered
\* exactly once, and the step that appends the placeholder reply takes the
\* state from THINKING to IDLE and empties last_user_msg.
C19_AnsweredOnce ==
    /\ []NormalFlowInv
    /\ [][(/\ script = "Maxe"
           /\ messages' # messages
           /\ IsNormalReply(Last(messages'))) =>
                /\ Len(messages') = Len(messages) + 1
                /\ maxe_state = "THINKING"
                /\ maxe_state' = "IDLE"
                /\ last_user_msg # <<>>
                /\ last_user_msg' = <<>>]_vars

\* Two messages that do not escalate, each with its reply, and nothing left
\* to answer.
C19_Witness ==
    /\ script = "Maxe"
    /\ pc = "idle"
    /\ Len(messages) = 4
    /\ IsNormalReply(messages[2])
    /\ IsNormalReply(messages[4])
    /\ maxe_state = "IDLE"
    /\ last_user_msg = <<>>

\* The entry is a user message that escalates.
IsEscalatingEntry(e) ==
    e.role = "user" /\ check_escalation_Maxe(e.content).escalate

\* What holds of an escalation in src/Maxe/app.py in every state: a
\* placeholder reply that comes after an escalating message answers a later
\* message that does not escalate; the state is never THINKING with an
\* escalating last_user_msg; once the escalation branch has run for the last
\* message, the state is ESCALATION and last_user_msg is that message.
EscalationInv ==
    script = "Maxe" =>
        /\ \A i \in 1..Len(messages) : \A j \in 1..Len(messages) :
                (i < j /\ IsEscalatingEntry(messages[i])
                       /\ IsNormalReply(messages[j])) =>
                    \E k \in (i + 1)..(j - 1) :
                        /\ messages[k].role = "user"
                        /\ ~IsEscalatingEntry(messages[k])
        /\ maxe_state = "THINKING" =>
                ~check_escalation_Maxe(last_user_msg).escalate
        /\ (/\ pc \in {"notifying", "rerun", "idle"}
            /\ messages # <<>>
            /\ check_escalation_Maxe(LastUser).escalate) =>
                /\ maxe_state = "ESCALATION"
                /\ last_user_msg = LastUser

\* C20: in src/Maxe/app.py an escalating message never gets the placeholder
\* reply, in its own run or in a later one, and the state leaves ESCALATION
\* only when a message that does not escalate is submitted.
C20_NoNormalReplyToEscalation ==
    /\ []EscalationInv
    /\ [][(/\ script = "Maxe"
           /\ maxe_state = "ESCALATION"
           /\ maxe_state' # "ESCALATION") =>
                /\ maxe_state' = "THINKING"
                /\ Len(messages') > 0
                /\ Last(messages').role = "user"
                /\ last_user_msg' = Last(messages').content
                /\ ~check_escalation_Maxe(last_user_msg').escalate]_vars

\* An escalating message, runs without input, then a message that does not
\* escalate and its placeholder reply.
C20_Witness ==
    /\ script = "Maxe"
    /\ pc = "idle"
    /\ Len(messages) >= 4
    /\ IsEscalatingEntry(messages[1])
    /\ IsNormalReply(Last(messages))
    /\ last_user_msg = <<>>
    /\ maxe_state = "IDLE"

\* The fallback typewriter_in_chat shows when typing the reply raised.
Hiccup == "MAXE hit a hiccup"

\* What holds after an error inside typewriter_in_chat: until the reply is
\* saved the state is the on_error_state and the message is still queued;
\* once it is saved, the reply is the last entry, nothing is queued, and
\* send_coach_email was called once for each escalating message.
TypewriterErrorInv ==
    (script = "app" /\ Hiccup \in shown) =>
        /\ "exception" \notin shown
        /\ pc \in {"save", "rerun"}
        /\ pc = "save" =>
                /\ maxe_state = "IDLE"
                /\ pending
                /\ pending_user_msg = msg
        /\ pc = "rerun" =>
                /\ Last(messages) = assistant_entry(reply)
                /\ messages[Len(messages) - 1] = user_entry(msg)
                /\ ~pending
                /\ pending_user_msg = <<>>
                /\ maxe_state = "IDLE"
                /\ Len(notified) = Len(Escalating)

====
